---- MODULE Spec2Model ----
(***************************************************************************)
(* A model of the Ekam Query front end: the result views (SqlTable,        *)
(* DocumentCards, ResultsView), the App's query submission, the            *)
(* DocumentUploader's staging list and upload, and the result cache the    *)
(* README names.                                                           *)
(*                                                                         *)
(* JavaScript values are tagged records, so that values of different       *)
(* types can be compared: Null (null or undefined), JStr(s), JNum(n),      *)
(* JArr(seq); an object is a record with t = "obj".                        *)
(***************************************************************************)
EXTENDS Integers, Sequences, FiniteSets, TLC

VARIABLES
    viewOp, viewInput, viewOutput,                       \* the result views
    query, isLoading, error, queryResults, inflight, settled, latest,  \* App and QueryPanel
    files, isUploading, uploadStatus, upload, lastDrop, lastUpload,  \* DocumentUploader
    cache, now, calls                                    \* result cache

viewVars == <<viewOp, viewInput, viewOutput>>
appVars == <<query, isLoading, error, queryResults, inflight, settled, latest>>
upVars == <<files, isUploading, uploadStatus, upload, lastDrop, lastUpload>>
cacheVars == <<cache, now, calls>>
vars == <<viewVars, appVars, upVars, cacheVars>>

\* What each component's actions leave alone.
notView == <<appVars, upVars, cacheVars>>
notApp == <<viewVars, upVars, cacheVars>>
notUploader == <<viewVars, appVars, cacheVars>>
notCache == <<viewVars, appVars, upVars>>

----------------------------------------------------------------------------
(* JavaScript values *)

Null == [t |-> "null"]
JStr(s) == [t |-> "str", s |-> s]
JNum(n) == [t |-> "num", n |-> n]
JArr(a) == [t |-> "arr", a |-> a]

IsNull(v) == v.t = "null"

\* JavaScript's falsy values among null, strings and numbers: what !v and v || d test.
Falsy(v) ==
    \/ v.t = "null"
    \/ (v.t = "str" /\ v.s = "")
    \/ (v.t = "num" /\ v.n = 0)

\* v || d
OrElse(v, d) == IF Falsy(v) THEN d ELSE v

\* The text React shows for a child {v}: a string as it is, a number in digits,
\* nothing for null and undefined.
ChildText(v) ==
    IF v.t = "str" THEN v.s
    ELSE IF v.t = "num" THEN ToString(v.n)
    ELSE ""

\* String(v) of a value that is not null.
JSString(v) == IF v.t = "num" THEN ToString(v.n) ELSE v.s

\* arr[i] with JavaScript's 0-based index: undefined past the end.
At(seq, i) == IF i + 1 <= Len(seq) THEN seq[i + 1] ELSE Null

----------------------------------------------------------------------------
(* Bounds and input samples of the views *)

MaxRows == 2
MaxDocs == 2

SeqsUpTo(S, n) == UNION {[1..k -> S] : k \in 0..n}

Cells == {Null, JStr(""), JStr("boom"), JNum(0), JNum(7)}

\* Rows of a result set: empty, one cell of each kind, two cells.
RowSamples ==
    {<<>>} \cup {<<c>> : c \in Cells} \cup {<<JNum(7), Null>>, <<JStr(""), JStr("boom")>>}

ColumnSamples == {<<>>, <<"Error">>, <<"id">>, <<"id", "Error">>, <<"Error", "Error">>}

GeneratedQueries == {Null, JStr(""), JStr("Failed"), JStr("SELECT 1")}

RowLists(n) == {Null} \cup {JArr(a) : a \in SeqsUpTo(RowSamples, n)}

SqlResultsUpTo(n) ==
    {[t |-> "obj", columns |-> c, rows |-> r, generated_query |-> g] :
        c \in ColumnSamples, r \in RowLists(n), g \in GeneratedQueries}

SqlResults == {Null} \cup SqlResultsUpTo(MaxRows)

\* similarity_score in thousandths: 905 is 0.905.
DocSamples ==
    {[source_file |-> JStr("a.pdf"), chunk_index |-> JNum(0), answer |-> "alpha",
      similarity_score |-> 250],
     [source_file |-> Null, chunk_index |-> Null, answer |-> "beta",
      similarity_score |-> 905],
     [source_file |-> JStr(""), chunk_index |-> JNum(3), answer |-> "",
      similarity_score |-> 1000],
     [source_file |-> JStr("b.txt"), chunk_index |-> JNum(1), answer |-> "gamma",
      similarity_score |-> 0]}

DocLists == {Null} \cup {JArr(a) : a \in SeqsUpTo(DocSamples, MaxDocs)}

QueryTypes == {"sql", "document", "hybrid", "unknown", "other"}

\* cache_status and performance_metrics.total_time_seconds (in hundredths of a
\* second) as they come together in an envelope.
HeaderSamples ==
    {[cache_status |-> Null, performance_metrics |-> Null],
     [cache_status |-> JStr("hit"),
      performance_metrics |-> [t |-> "obj", total_time_seconds |-> JNum(0)]],
     [cache_status |-> JStr("miss"),
      performance_metrics |-> [t |-> "obj", total_time_seconds |-> JNum(125)]],
     [cache_status |-> JStr("miss"),
      performance_metrics |-> [t |-> "obj", total_time_seconds |-> Null]]}

Envelope(qt, sr, dr, h) ==
    [t |-> "obj", query_type |-> qt, sql_result |-> sr, document_results |-> dr,
     cache_status |-> h.cache_status, performance_metrics |-> h.performance_metrics]

Envelopes ==
    {Envelope(qt, sr, dr, h) :
        qt \in QueryTypes, sr \in {Null} \cup SqlResultsUpTo(1), dr \in DocLists,
        h \in HeaderSamples}

----------------------------------------------------------------------------
(* SqlTable *)

\* IsErrorSentinel testing the first column only, whatever the number of columns.
IsErrorSentinelFirstOnly(sqlResult) ==
    Len(sqlResult.columns) >= 1 /\ sqlResult.columns[1] = "Error"

IsErrorSentinel(sqlResult) ==
    Len(sqlResult.columns) = 1 /\ sqlResult.columns[1] = "Error"

\* SqlErrorView showing the statement whenever generated_query is truthy,
\* "Failed" included.
SqlErrorViewAnyStatement(sqlResult) ==
    IF IsNull(sqlResult.rows) THEN [kind |-> "throws"]
    ELSE
        LET row0 == IF Len(sqlResult.rows.a) > 0 THEN sqlResult.rows.a[1] ELSE <<>>
            cell == At(row0, 0)
        IN  [kind |-> "error",
             statement |-> IF ~Falsy(sqlResult.generated_query)
                           THEN sqlResult.generated_query ELSE Null,
             failedNotice |-> sqlResult.generated_query = JStr("Failed"),
             message |-> ChildText(OrElse(cell, JStr("Unknown database error")))]

\* The error branch. sqlResult.rows[0] of a missing rows throws a TypeError.
SqlErrorView(sqlResult) ==
    IF IsNull(sqlResult.rows) THEN [kind |-> "throws"]
    ELSE
        LET row0 == IF Len(sqlResult.rows.a) > 0 THEN sqlResult.rows.a[1] ELSE <<>>
            cell == At(row0, 0)
        IN  [kind |-> "error",
             statement |-> IF ~Falsy(sqlResult.generated_query)
                              /\ sqlResult.generated_query # JStr("Failed")
                           THEN sqlResult.generated_query ELSE Null,
             failedNotice |-> sqlResult.generated_query = JStr("Failed"),
             message |-> ChildText(OrElse(cell, JStr("Unknown database error")))]

SqlZeroRowsView(sqlResult) ==
    [kind |-> "zeroRows",
     query |-> ChildText(OrElse(sqlResult.generated_query, JStr("N/A"))),
     message |-> "The query returned 0 rows."]

\* CellView testing !cell instead of null and undefined.
CellViewFalsyIsNull(cell) ==
    IF Falsy(cell) THEN [kind |-> "nullMarker", text |-> "NULL"]
    ELSE [kind |-> "text", text |-> JSString(cell)]

CellView(cell) ==
    IF IsNull(cell) THEN [kind |-> "nullMarker", text |-> "NULL"]
    ELSE [kind |-> "text", text |-> JSString(cell)]

SqlDataView(sqlResult) ==
    LET rows == sqlResult.rows.a IN
    [kind |-> "table",
     query |-> ChildText(OrElse(sqlResult.generated_query, JStr("N/A"))),
     headers |-> sqlResult.columns,
     body |-> [i \in 1..Len(rows) |-> [j \in 1..Len(rows[i]) |-> CellView(rows[i][j])]],
     rowCount |-> "Showing " \o ToString(Len(rows)) \o " row"
                  \o (IF Len(rows) # 1 THEN "s" ELSE "")]

\* SqlTable testing only !sqlResult.rows, not the length, for zero rows.
SqlTableMissingRowsOnly(sqlResult) ==
    IF IsNull(sqlResult)
    THEN [kind |-> "noSql", message |-> "No SQL query was executed for this request."]
    ELSE IF IsErrorSentinel(sqlResult) THEN SqlErrorView(sqlResult)
    ELSE IF IsNull(sqlResult.rows) THEN SqlZeroRowsView(sqlResult)
    ELSE SqlDataView(sqlResult)

SqlTable(sqlResult) ==
    IF IsNull(sqlResult)
    THEN [kind |-> "noSql", message |-> "No SQL query was executed for this request."]
    ELSE IF IsErrorSentinel(sqlResult) THEN SqlErrorView(sqlResult)
    ELSE IF IsNull(sqlResult.rows) \/ Len(sqlResult.rows.a) = 0
    THEN SqlZeroRowsView(sqlResult)
    ELSE SqlDataView(sqlResult)

----------------------------------------------------------------------------
(* DocumentCards *)

\* (score * 100).toFixed(1) + "%", the score in thousandths.
Relevance(score) == ToString(score \div 10) \o "." \o ToString(score % 10) \o "%"

ShownDoc(docs) == docs[1]

DocumentCards(documentResults) ==
    IF IsNull(documentResults) \/ Len(documentResults.a) = 0
    THEN [kind |-> "none", message |-> "No relevant answer found in documents."]
    ELSE LET doc == ShownDoc(documentResults.a) IN
         [kind |-> "card",
          cards |-> 1,
          title |-> ChildText(OrElse(doc.source_file, JStr("Unknown Source"))),
          relevance |-> Relevance(doc.similarity_score),
          answer |-> doc.answer,
          chunk |-> IF IsNull(doc.chunk_index) THEN "N/A" ELSE ChildText(doc.chunk_index),
          doc |-> doc]

----------------------------------------------------------------------------
(* ResultsView *)

formatQueryType(type) ==
    CASE type = "sql" -> "Database"
      [] type = "document" -> "Documents"
      [] type = "hybrid" -> "Database + Documents"
      [] type = "unknown" -> "Unknown (Default Document)"
      [] OTHER -> type

\* n.toFixed(2) + "s", n in hundredths of a second.
TimeText(h) ==
    ToString(h \div 100) \o "." \o ToString((h % 100) \div 10) \o ToString(h % 10) \o "s"

ShowsSqlSection(query_type) == query_type = "sql" \/ query_type = "hybrid"

\* ShowsDocSection without the unknown type.
ShowsDocSectionNoUnknown(query_type) ==
    query_type = "document" \/ query_type = "hybrid"

ShowsDocSection(query_type) ==
    query_type = "document" \/ query_type = "hybrid" \/ query_type = "unknown"

Absent == [kind |-> "absent"]

ResultsView(queryResult) ==
    IF IsNull(queryResult) THEN [kind |-> "nothing"]
    ELSE
        LET qt == queryResult.query_type
            sr == queryResult.sql_result
            dr == queryResult.document_results
            pm == queryResult.performance_metrics
            cs == queryResult.cache_status
        IN  [kind |-> "results",
             typeBadge |-> formatQueryType(qt),
             timeBadge |-> IF ~IsNull(pm) /\ ~IsNull(pm.total_time_seconds)
                           THEN TimeText(pm.total_time_seconds.n) ELSE "",
             cacheBadge |-> IF ~Falsy(cs)
                            THEN (IF cs = JStr("hit") THEN "Cache HIT" ELSE "Cache MISS")
                            ELSE "",
             sqlSection |-> IF ShowsSqlSection(qt) THEN SqlTable(sr) ELSE Absent,
             docSection |-> IF ShowsDocSection(qt) THEN DocumentCards(dr) ELSE Absent,
             emptyState |->
                 /\ (IsNull(sr) \/ IsNull(sr.rows) \/ Len(sr.rows.a) = 0)
                 /\ (IsNull(dr) \/ Len(dr.a) = 0)
                 /\ qt # "sql" /\ qt # "document" /\ qt # "hybrid"]

----------------------------------------------------------------------------
(* The views applied to bounded inputs *)

ViewInit ==
    /\ viewOp = "none"
    /\ viewInput = Null
    /\ viewOutput = [kind |-> "nothing"]

ShowSqlTable ==
    /\ viewOp = "none"
    /\ UNCHANGED notView
    /\ \E sr \in SqlResults :
        /\ viewOp' = "SqlTable"
        /\ viewInput' = sr
        /\ viewOutput' = SqlTable(sr)

ShowDocumentCards ==
    /\ viewOp = "none"
    /\ UNCHANGED notView
    /\ \E dr \in DocLists :
        /\ viewOp' = "DocumentCards"
        /\ viewInput' = dr
        /\ viewOutput' = DocumentCards(dr)

ShowResultsView ==
    /\ viewOp = "none"
    /\ UNCHANGED notView
    /\ \E qr \in Envelopes :
        /\ viewOp' = "ResultsView"
        /\ viewInput' = qr
        /\ viewOutput' = ResultsView(qr)

----------------------------------------------------------------------------
(* App and QueryPanel *)

QueryTexts == {"", "  ", "q1", " q1", "q2"}

\* String.prototype.trim on the query texts.
Trim(s) ==
    CASE s = "  " -> ""
      [] s = " q1" -> "q1"
      [] OTHER -> s

\* What POST /query answers with: a response envelope.
ResponseSamples ==
    {Envelope("sql",
              [t |-> "obj", columns |-> <<"id">>, rows |-> JArr(<<<<JNum(7)>>>>),
               generated_query |-> JStr("SELECT 1")],
              JArr(<<>>), [cache_status |-> JStr("miss"), performance_metrics |-> Null]),
     Envelope("sql",
              [t |-> "obj", columns |-> <<"Error">>, rows |-> JArr(<<<<JStr("boom")>>>>),
               generated_query |-> JStr("Failed")],
              JArr(<<>>), [cache_status |-> JStr("miss"), performance_metrics |-> Null]),
     Envelope("document", Null,
              JArr(<<[source_file |-> JStr("a.pdf"), chunk_index |-> JNum(0),
                      answer |-> "alpha", similarity_score |-> 250]>>),
              [cache_status |-> JStr("hit"), performance_metrics |-> Null]),
     Envelope("unknown", Null, JArr(<<>>),
              [cache_status |-> JStr("miss"), performance_metrics |-> Null])}

\* What submitQuery rejects with: an Axios error, with or without a response.
ErrorDetails == {Null, JStr(""), JStr("Query failed on the server")}
ErrorMessages == {Null, JStr(""), JStr("Network Error")}
ErrorSamples ==
    {[response |-> Null, message |-> m] : m \in ErrorMessages}
    \cup {[response |-> [t |-> "obj", data |-> Null], message |-> m] : m \in ErrorMessages}
    \cup {[response |-> [t |-> "obj", data |-> [t |-> "obj", detail |-> d]], message |-> m] :
            d \in ErrorDetails, m \in ErrorMessages}

\* err.response?.data?.detail
DetailOf(err) ==
    IF IsNull(err.response) THEN Null
    ELSE IF IsNull(err.response.data) THEN Null
    ELSE err.response.data.detail

\* QueryErrorText without the default text.
QueryErrorTextNoDefault(err) == OrElse(DetailOf(err), err.message)

\* The message handleQuerySubmit's catch block sets.
QueryErrorText(err) ==
    LET apiErrorMessage == OrElse(DetailOf(err), err.message)
    IN  OrElse(apiErrorMessage, JStr("An error occurred while processing your query"))

NoSettle == [kind |-> "none"]

AppInit ==
    /\ query = ""
    /\ isLoading = FALSE
    /\ error = Null
    /\ queryResults = Null
    /\ inflight = <<>>
    /\ settled = NoSettle
    /\ latest = 0

\* QueryPanel's textarea onChange; the textarea is disabled while loading.
TypeQuery ==
    \E s \in QueryTexts :
        /\ ~isLoading
        /\ s # query
        /\ query' = s
        /\ UNCHANGED <<isLoading, error, queryResults, inflight, settled, latest>>
        /\ UNCHANGED notApp

\* handleQuerySubmit without the setQueryResults(null) before its request.
handleQuerySubmitKeepsResults(q) ==
    IF Trim(q) = ""
    THEN /\ error' = JStr("Please enter a query")
         /\ queryResults' = Null
         /\ UNCHANGED <<isLoading, inflight, latest>>
    ELSE /\ isLoading' = TRUE
         /\ error' = Null
         /\ UNCHANGED queryResults
         /\ latest' = 1 - latest
         /\ inflight' = Append(inflight, [query |-> q, id |-> 1 - latest])

\* App.handleQuerySubmit up to its await: the validation, then the request.
\* latest tells this request from the one before it: each submission flips it
\* and the request carries the new value.
handleQuerySubmit(q) ==
    IF Trim(q) = ""
    THEN /\ error' = JStr("Please enter a query")
         /\ queryResults' = Null
         /\ UNCHANGED <<isLoading, inflight, latest>>
    ELSE /\ isLoading' = TRUE
         /\ error' = Null
         /\ queryResults' = Null
         /\ latest' = 1 - latest
         /\ inflight' = Append(inflight, [query |-> q, id |-> 1 - latest])

\* handleSubmit without its test of the query and of isLoading.
handleSubmitUnguarded == handleQuerySubmit(query)

\* QueryPanel.handleSubmit
handleSubmit ==
    IF Trim(query) # "" /\ ~isLoading
    THEN handleQuerySubmit(query)
    ELSE UNCHANGED <<isLoading, error, queryResults, inflight, latest>>

\* The Submit button, disabled while loading or when the query is blank.
ClickSubmit ==
    /\ ~(isLoading \/ Trim(query) = "")
    /\ handleSubmit
    /\ settled' = IF Trim(query) # "" /\ ~isLoading THEN NoSettle ELSE settled
    /\ UNCHANGED <<query, notApp>>

\* Ctrl/Cmd+Enter in the textarea, which is disabled while loading.
PressCtrlEnter ==
    /\ ~isLoading
    /\ handleSubmit
    /\ settled' = IF Trim(query) # "" /\ ~isLoading THEN NoSettle ELSE settled
    /\ UNCHANGED <<query, notApp>>

\* seq without its i-th element
RemoveAt(seq, i) == [k \in 1..(Len(seq) - 1) |-> IF k < i THEN seq[k] ELSE seq[k + 1]]

\* handleQuerySubmit after its await, submitQuery resolved: the try block's
\* second statement, then finally.
QueryResolved(response) ==
    /\ queryResults' = response
    /\ isLoading' = FALSE
    /\ UNCHANGED error

\* QueryRejected with setIsLoading(false) reached on success only.
QueryRejectedKeepsLoading(err) ==
    /\ error' = QueryErrorText(err)
    /\ queryResults' = Null
    /\ UNCHANGED isLoading

\* handleQuerySubmit after its await, submitQuery rejected: catch, then finally.
\* err is an Error object, so the catch block itself does not throw.
QueryRejected(err) ==
    /\ error' = QueryErrorText(err)
    /\ queryResults' = Null
    /\ isLoading' = FALSE

ResolveQuery ==
    \E i \in 1..Len(inflight), response \in ResponseSamples :
        /\ QueryResolved(response)
        /\ inflight' = RemoveAt(inflight, i)
        /\ settled' = [kind |-> "resolved", query |-> inflight[i].query,
                       id |-> inflight[i].id, response |-> response]
        /\ UNCHANGED <<query, latest, notApp>>

RejectQuery ==
    \E i \in 1..Len(inflight), err \in ErrorSamples :
        /\ QueryRejected(err)
        /\ inflight' = RemoveAt(inflight, i)
        /\ settled' = [kind |-> "rejected", query |-> inflight[i].query,
                       id |-> inflight[i].id, err |-> err]
        /\ UNCHANGED <<query, latest, notApp>>

\* The four result areas of App's main content.

\* {error && !isLoading && ...}: the error alert
ShowsErrorAlert == ~Falsy(error) /\ ~isLoading

\* {isLoading && ...}: the loading indicator
ShowsLoading == isLoading

\* {!isLoading && !error && queryResults && <ResultsView />}
ShowsResults == ~isLoading /\ Falsy(error) /\ ~Falsy(queryResults)

\* ShowsEmptyState without its !error test.
ShowsEmptyStateIgnoringError == ~isLoading /\ Falsy(queryResults)

\* {!isLoading && !error && !queryResults && ...}: the initial empty state
ShowsEmptyState == ~isLoading /\ Falsy(error) /\ Falsy(queryResults)

\* The areas App displays.
AppAreas ==
    {a \in {"error", "loading", "results", "empty"} :
        \/ a = "error" /\ ShowsErrorAlert
        \/ a = "loading" /\ ShowsLoading
        \/ a = "results" /\ ShowsResults
        \/ a = "empty" /\ ShowsEmptyState}

----------------------------------------------------------------------------
(* DocumentUploader *)

MaxFiles == 3
MaxDrop == 2

ACCEPTED_FILES ==
    [mime |-> {"application/pdf",
               "application/vnd.openxmlformats-officedocument.wordprocessingml.document",
               "application/msword",
               "text/plain"},
     ext |-> {".pdf", ".docx", ".doc", ".txt"}]

\* The files a user can drop: name, size in bytes, and the MIME type the browser
\* declares ("" when it knows none).
FileSamples ==
    {[name |-> "a.pdf", size |-> 10, type |-> "application/pdf"],
     [name |-> "a.pdf", size |-> 11, type |-> "application/pdf"],
     [name |-> "notes.txt", size |-> 10, type |-> ""],
     [name |-> "old.doc", size |-> 7, type |-> "application/msword"],
     [name |-> "run.exe", size |-> 10, type |-> "application/x-msdownload"],
     [name |-> "pic.png", size |-> 11, type |-> "image/png"]}

\* The extension of a file name, lower case, with its dot.
Extension(name) ==
    CASE name = "a.pdf" -> ".pdf"
      [] name = "notes.txt" -> ".txt"
      [] name = "old.doc" -> ".doc"
      [] name = "run.exe" -> ".exe"
      [] name = "pic.png" -> ".png"
      [] OTHER -> ""

\* useDropzone without its accept option: every file passes.
FileAcceptedAnyType(file) == TRUE

\* useDropzone's accept: a file passes when its MIME type is one of the keys of
\* ACCEPTED_FILES or its name ends in one of the listed extensions.
FileAccepted(file) ==
    \/ file.type \in ACCEPTED_FILES.mime
    \/ Extension(file.name) \in ACCEPTED_FILES.ext

FileRejected(file) == ~FileAccepted(file)

Range(seq) == {seq[i] : i \in 1..Len(seq)}

SameFile(f, g) == f.name = g.name /\ f.size = g.size

\* onDrop's newFiles: the accepted files that are not staged yet.
NewFiles(acceptedFiles, staged) ==
    LET NotStaged(newFile) == ~\E i \in 1..Len(staged) : SameFile(staged[i], newFile)
    IN  SelectSeq(acceptedFiles, NotStaged)

RejectedStatus(n) ==
    [type |-> "warning",
     message |-> ToString(n) \o " file(s) rejected (invalid type or size)."]

\* onDrop(acceptedFiles, rejectedFiles)
onDrop(acceptedFiles, rejectedFiles) ==
    LET newFiles == NewFiles(acceptedFiles, files) IN
    /\ files' = IF Len(newFiles) > 0 THEN files \o newFiles ELSE files
    /\ uploadStatus' =
           IF Len(rejectedFiles) > 0 THEN RejectedStatus(Len(rejectedFiles))
           ELSE IF Len(newFiles) > 0 THEN Null
           ELSE uploadStatus

NoDrop == [kind |-> "none"]
NoUpload == [kind |-> "none"]

Drops == SeqsUpTo(FileSamples, MaxDrop) \ {<<>>}

\* A drop or a file selection: useDropzone splits the files by accept and calls
\* onDrop; the dropzone is disabled while uploading.
Drop ==
    \E dropped \in Drops :
        LET acceptedFiles == SelectSeq(dropped, FileAccepted)
            rejectedFiles == SelectSeq(dropped, FileRejected)
        IN  /\ ~isUploading
            /\ Len(files) + Len(acceptedFiles) <= MaxFiles
            /\ onDrop(acceptedFiles, rejectedFiles)
            /\ lastDrop' = [kind |-> "drop", accepted |-> acceptedFiles,
                            rejected |-> rejectedFiles, before |-> files]
            /\ lastUpload' = NoUpload
            /\ UNCHANGED <<isUploading, upload, notUploader>>

\* removeFile(indexToRemove), from a staged file's remove button, which is
\* disabled while uploading.
removeFile(indexToRemove) ==
    /\ files' = RemoveAt(files, indexToRemove + 1)
    /\ uploadStatus' = IF Len(files) - 1 = 0 THEN Null ELSE uploadStatus

\* ClickRemove with a remove button that stays enabled while uploading.
ClickRemoveWhileUploading ==
    \E index \in 0..(Len(files) - 1) :
        /\ removeFile(index)
        /\ lastDrop' = NoDrop
        /\ lastUpload' = IF isUploading THEN lastUpload ELSE NoUpload
        /\ UNCHANGED <<isUploading, upload, notUploader>>

ClickRemove ==
    \E index \in 0..(Len(files) - 1) :
        /\ ~isUploading
        /\ removeFile(index)
        /\ lastDrop' = NoDrop
        /\ lastUpload' = NoUpload
        /\ UNCHANGED <<isUploading, upload, notUploader>>

\* handleUpload(filesToUpload) up to its await: what it sets, and the request
\* uploadDocs sends (one POST /ingest/documents carrying every file), or Null.
handleUpload(filesToUpload) ==
    IF Len(filesToUpload) = 0
    THEN [isUploading |-> isUploading,
          uploadStatus |-> [type |-> "error", message |-> "No valid files to upload."],
          requests |-> <<>>]
    ELSE [isUploading |-> TRUE,
          uploadStatus |-> [type |-> "loading",
                            message |-> "Uploading " \o ToString(Len(filesToUpload))
                                        \o " file(s)..."],
          requests |-> <<[files |-> filesToUpload]>>]

\* The upload button, shown when files are staged and disabled while uploading.
ClickUpload ==
    /\ Len(files) > 0
    /\ ~isUploading
    /\ LET r == handleUpload(files) IN
        /\ isUploading' = r.isUploading
        /\ uploadStatus' = r.uploadStatus
        /\ upload' = upload \o r.requests
        /\ lastUpload' = [kind |-> "sent", staged |-> files, requests |-> r.requests]
    /\ lastDrop' = NoDrop
    /\ UNCHANGED <<files, notUploader>>

\* What POST /ingest/documents answers with.
IngestResponses(n) ==
    {[total_documents_ingested |-> d, total_chunks_created |-> d * 4] : d \in 0..n}

UploadErrorSamples ==
    {[response |-> Null, message |-> JStr("Network Error")],
     [response |-> Null, message |-> Null],
     [response |-> [t |-> "obj", data |-> [t |-> "obj", detail |-> JStr("No files ingested")]],
      message |-> JStr("Request failed with status code 400")]}

SuccessStatus(response) ==
    [type |-> "success",
     message |-> "Success: Ingested " \o ToString(response.total_documents_ingested)
                 \o " file(s) as " \o ToString(response.total_chunks_created)
                 \o " chunks."]

UploadErrorStatus(err) ==
    LET apiErrorMessage == OrElse(DetailOf(err), err.message)
    IN  [type |-> "error",
         message |-> ChildText(OrElse(apiErrorMessage, JStr("Failed to upload documents")))]

\* handleUpload after its await, uploadDocs resolved: try, then finally.
UploadResolved(response) ==
    /\ uploadStatus' = SuccessStatus(response)
    /\ files' = <<>>
    /\ isUploading' = FALSE

\* UploadRejected clearing the staging list as a success does.
UploadRejectedClearsFiles(err) ==
    /\ uploadStatus' = UploadErrorStatus(err)
    /\ isUploading' = FALSE
    /\ files' = <<>>

\* handleUpload after its await, uploadDocs rejected: catch, then finally.
UploadRejected(err) ==
    /\ uploadStatus' = UploadErrorStatus(err)
    /\ isUploading' = FALSE
    /\ UNCHANGED files

ResolveUpload ==
    \E i \in 1..Len(upload) :
        \E response \in IngestResponses(Len(upload[i].files)) :
            /\ UploadResolved(response)
            /\ upload' = RemoveAt(upload, i)
            /\ lastUpload' = [kind |-> "succeeded", sent |-> upload[i].files,
                              before |-> files, response |-> response]
            /\ lastDrop' = NoDrop
            /\ UNCHANGED notUploader

RejectUpload ==
    \E i \in 1..Len(upload), err \in UploadErrorSamples :
        /\ UploadRejected(err)
        /\ upload' = RemoveAt(upload, i)
        /\ lastUpload' = [kind |-> "failed", sent |-> upload[i].files,
                          before |-> files, err |-> err]
        /\ lastDrop' = NoDrop
        /\ UNCHANGED notUploader

UploaderInit ==
    /\ files = <<>>
    /\ isUploading = FALSE
    /\ uploadStatus = Null
    /\ upload = <<>>
    /\ lastDrop = NoDrop
    /\ lastUpload = NoUpload

----------------------------------------------------------------------------
(* Result cache and the orchestrator's use of it *)

CacheTtl == 2
MaxTime == 4
MaxCalls == 3

CacheQueries == {"q1", " Q1 ", "q2"}

\* The cache key of a query text: trimmed and case-folded.
normalize(q) == IF q = " Q1 " THEN "q1" ELSE q

CacheKeys == {normalize(q) : q \in CacheQueries}

\* The envelopes the orchestrator assembles on a miss.
FreshResponses == {r \in ResponseSamples : r.cache_status = JStr("miss")}

\* Expired with > in place of >=: an entry is still served at exactly its ttl.
ExpiredAfterTtl(entry, time) == time - entry.created_at > entry.ttl_seconds

Expired(entry, time) == time - entry.created_at >= entry.ttl_seconds

\* get(key): the cached value with cache_status forced to hit, or absent
\* (Null) when there is no entry or the entry has expired.
get(key) ==
    IF IsNull(cache[key]) \/ Expired(cache[key], now) THEN Null
    ELSE [cache[key].value EXCEPT !.cache_status = JStr("hit")]

\* put(key, value, ttl)
put(key, value, ttl) ==
    [cache EXCEPT ![key] = [t |-> "obj", key |-> key, value |-> value,
                            created_at |-> now, ttl_seconds |-> ttl]]

\* One request through the orchestrator: cache lookup, then on a miss the
\* assembled response is written to the cache.
Submit ==
    \E q \in CacheQueries, fresh \in FreshResponses :
        LET key == normalize(q)
            found == get(key)
        IN  /\ Len(calls) < MaxCalls
            /\ cache' = IF IsNull(found) THEN put(key, fresh, CacheTtl) ELSE cache
            /\ calls' = Append(calls, [key |-> key, time |-> now,
                                       response |-> IF IsNull(found) THEN fresh ELSE found])
            /\ UNCHANGED <<now, notCache>>

Tick ==
    /\ now < MaxTime
    /\ now' = now + 1
    /\ UNCHANGED <<cache, calls, notCache>>

CacheInit ==
    /\ cache = [k \in CacheKeys |-> Null]
    /\ now = 0
    /\ calls = <<>>

----------------------------------------------------------------------------
(* Specifications *)

Init == ViewInit /\ AppInit /\ UploaderInit /\ CacheInit

\* The App with its QueryPanel.
Next == TypeQuery \/ ClickSubmit \/ PressCtrlEnter \/ ResolveQuery \/ RejectQuery
Spec == Init /\ [][Next]_vars

\* The result views, each applied once to an input drawn from its samples.
NextView == ShowSqlTable \/ ShowDocumentCards \/ ShowResultsView
SpecView == Init /\ [][NextView]_vars

\* The DocumentUploader.
NextUpload == Drop \/ ClickRemove \/ ClickUpload \/ ResolveUpload \/ RejectUpload
SpecUpload == Init /\ [][NextUpload]_vars

\* App and its DocumentUploader on a transport that settles every request:
\* while a request is pending its settling stays enabled, and is eventually
\* taken. App renders <DocumentUploader /> without props and the two share no
\* state, so a behaviour follows one of them while the other rests as mounted.
NextLive ==
    \/ (UploaderInit /\ TypeQuery)
    \/ (UploaderInit /\ ClickSubmit)
    \/ (UploaderInit /\ PressCtrlEnter)
    \/ (UploaderInit /\ ResolveQuery)
    \/ (UploaderInit /\ RejectQuery)
    \/ (AppInit /\ Drop)
    \/ (AppInit /\ ClickRemove)
    \/ (AppInit /\ ClickUpload)
    \/ (AppInit /\ ResolveUpload)
    \/ (AppInit /\ RejectUpload)
SpecLive ==
    /\ Init
    /\ [][NextLive]_vars
    /\ WF_vars(ResolveQuery \/ RejectQuery)
    /\ WF_vars(ResolveUpload \/ RejectUpload)

\* The result cache.
NextCache == Submit \/ Tick
SpecCache == Init /\ [][NextCache]_vars

----------------------------------------------------------------------------
(* Claims about the result views, checked under SpecView *)

OnResultsView == viewOp = "ResultsView"
OnSqlTable == viewOp = "SqlTable" /\ ~IsNull(viewInput)
OnDocumentCards == viewOp = "DocumentCards"

IsList(v) == v.t = "arr"
NonEmptyList(v) == IsList(v) /\ Len(v.a) > 0
ExactlyError(columns) == columns = <<"Error">>
Presented(section) == section.kind # "absent"

\* C1: whatever sql_result and document_results hold, query_type sql presents
\* no document result, document presents no SQL result, hybrid presents both
\* the Database Result and the Document Answer section, and unknown presents
\* the Document Answer section and not the Database Result section.
C1_SectionsFollowQueryType ==
    OnResultsView =>
        LET qt == viewInput.query_type IN
        /\ qt = "sql" =>
              ~Presented(viewOutput.docSection) /\ Presented(viewOutput.sqlSection)
        /\ qt = "document" =>
              ~Presented(viewOutput.sqlSection) /\ Presented(viewOutput.docSection)
        /\ qt = "hybrid" =>
              Presented(viewOutput.sqlSection) /\ Presented(viewOutput.docSection)
        /\ qt = "unknown" =>
              /\ ~Presented(viewOutput.sqlSection)
              /\ Presented(viewOutput.docSection)
              /\ viewOutput.typeBadge = "Unknown (Default Document)"

\* An unknown envelope that carries a data table and no documents: only the
\* Document Answer section is shown.
C1_Witness ==
    /\ OnResultsView
    /\ viewInput.query_type = "unknown"
    /\ ~IsNull(viewInput.sql_result)
    /\ NonEmptyList(viewInput.sql_result.rows)
    /\ ~ExactlyError(viewInput.sql_result.columns)
    /\ viewOutput.docSection.kind = "none"
    /\ ~Presented(viewOutput.sqlSection)

\* rows[0][0] of a rows list, Null when there is no such cell.
FirstCell(rows) == IF Len(rows) > 0 /\ Len(rows[1]) > 0 THEN rows[1][1] ELSE Null

C3_StatementOrFailedNotice ==
    (OnSqlTable /\ viewOutput.kind = "error") =>
        LET gq == viewInput.generated_query
            hasStatement == gq.t = "str" /\ gq.s # "" /\ gq.s # "Failed"
        IN  /\ hasStatement => viewOutput.statement = gq
            /\ ~hasStatement => IsNull(viewOutput.statement)
            /\ viewOutput.failedNotice <=> gq = JStr("Failed")
            /\ ~(~IsNull(viewOutput.statement) /\ viewOutput.failedNotice)

\* A failed execution that shows the attempted statement and no notice.
C3_Witness ==
    /\ OnSqlTable
    /\ viewOutput.kind = "error"
    /\ viewOutput.statement = JStr("SELECT 1")
    /\ ~viewOutput.failedNotice
    /\ viewOutput.message = "boom"

\* C4: a result that is not the error sentinel and whose rows are empty or
\* missing presents the generated query and 'The query returned 0 rows.',
\* neither the error display nor a data table.
C4_ZeroRowsIsSuccess ==
    (OnSqlTable /\ ~ExactlyError(viewInput.columns)
        /\ (IsNull(viewInput.rows) \/ viewInput.rows = JArr(<<>>))) =>
        LET gq == viewInput.generated_query IN
        /\ viewOutput.kind = "zeroRows"
        /\ viewOutput.message = "The query returned 0 rows."
        /\ viewOutput.query = IF gq.t = "str" /\ gq.s # "" THEN gq.s ELSE "N/A"

\* An empty rows list under ordinary columns.
C4_Witness ==
    /\ OnSqlTable
    /\ viewInput.columns = <<"id">>
    /\ viewInput.rows = JArr(<<>>)
    /\ viewOutput.kind = "zeroRows"
    /\ viewOutput.query = "SELECT 1"

BestScore(docs) ==
    CHOOSE m \in {docs[i].similarity_score : i \in 1..Len(docs)} :
        \A i \in 1..Len(docs) : docs[i].similarity_score <= m

\* C5: at most one answer is presented and it is the best-scoring element of
\* document_results; an empty or missing list presents the no-answer message.
C5_BestScoringAnswerShown ==
    OnDocumentCards =>
        IF NonEmptyList(viewInput)
        THEN /\ viewOutput.kind = "card"
             /\ viewOutput.cards = 1
             /\ viewOutput.doc.similarity_score = BestScore(viewInput.a)
        ELSE /\ viewOutput.kind = "none"
             /\ viewOutput.message = "No relevant answer found in documents."

\* The text a cell of the data table must show.
ExpectedCell(cell) ==
    CASE cell.t = "null" -> [kind |-> "nullMarker", text |-> "NULL"]
      [] cell.t = "str" -> [kind |-> "text", text |-> cell.s]
      [] cell.t = "num" -> [kind |-> "text", text |-> ToString(cell.n)]

\* C7: a non-error result with rows presents the headers in the order of
\* columns, one table row per row and one cell per cell in order, a null cell
\* as the NULL marker and an empty string as empty text, and the length of
\* rows as the row count.
C7_TableVerbatim ==
    (OnSqlTable /\ ~ExactlyError(viewInput.columns) /\ NonEmptyList(viewInput.rows)) =>
        LET rows == viewInput.rows.a IN
        /\ viewOutput.kind = "table"
        /\ viewOutput.headers = viewInput.columns
        /\ Len(viewOutput.body) = Len(rows)
        /\ \A i \in 1..Len(rows) :
              /\ Len(viewOutput.body[i]) = Len(rows[i])
              /\ \A j \in 1..Len(rows[i]) :
                    viewOutput.body[i][j] = ExpectedCell(rows[i][j])
        /\ viewOutput.rowCount \in {"Showing " \o ToString(Len(rows)) \o " row",
                                    "Showing " \o ToString(Len(rows)) \o " rows"}

\* A table whose rows hold a null cell and an empty-string cell.
C7_Witness ==
    /\ OnSqlTable
    /\ viewInput.columns = <<"id", "Error">>
    /\ NonEmptyList(viewInput.rows)
    /\ viewInput.rows.a = <<<<JNum(7), Null>>, <<JStr(""), JStr("boom")>>>>
    /\ viewOutput.kind = "table"
    /\ viewOutput.body[1][2].kind = "nullMarker"
    /\ viewOutput.body[2][1] = [kind |-> "text", text |-> ""]
    /\ viewOutput.rowCount = "Showing 2 rows"

----------------------------------------------------------------------------
(* Claims about the App's query submission, checked under Spec *)

DefaultQueryError == JStr("An error occurred while processing your query")

HasText(v) == v.t = "str" /\ v.s # ""

\* The message a rejection must leave: the server's detail, else the
\* exception's message, else the default text.
ExpectedQueryError(err) ==
    IF ~IsNull(err.response) /\ ~IsNull(err.response.data)
       /\ HasText(err.response.data.detail)
    THEN err.response.data.detail
    ELSE IF HasText(err.message) THEN err.message
    ELSE DefaultQueryError

\* C6: a completed submission leaves either the response envelope or an error
\* message, never neither and never both: resolved, queryResults is the
\* response and error is null; rejected, the handler has run to its end, error
\* is the non-empty message (detail, else message, else default) and
\* queryResults is null.
C6_EnvelopeOrError ==
    /\ settled.kind = "resolved" =>
          /\ queryResults = settled.response
          /\ IsNull(error)
          /\ ~isLoading
    /\ settled.kind = "rejected" =>
          /\ IsNull(queryResults)
          /\ HasText(error)
          /\ error = ExpectedQueryError(settled.err)
          /\ ~isLoading
    /\ settled.kind # "none" => (IsNull(queryResults) # IsNull(error))

\* A rejection that carries neither detail nor message leaves the default text.
C6_Witness ==
    /\ settled.kind = "rejected"
    /\ ~IsNull(settled.err.response)
    /\ IsNull(settled.err.message)
    /\ error = DefaultQueryError
    /\ IsNull(queryResults)

----------------------------------------------------------------------------
(* Claims about the DocumentUploader, checked under SpecUpload *)

\* pdf, docx, doc or plain text, by declared MIME type or by extension.
IsDocument(file) ==
    \/ file.type \in {"application/pdf", "application/msword", "text/plain",
                      "application/vnd.openxmlformats-officedocument.wordprocessingml.document"}
    \/ file.name \in {"a.pdf", "notes.txt", "old.doc"}

Staged(file) == \E i \in 1..Len(files) : SameFile(files[i], file)

\* C8: only files of the accepted types are ever staged or sent; after a drop
\* no rejected file is staged, every accepted file of the drop is staged
\* whatever was rejected with it, and when files were rejected the status is
\* the warning with their number.
C8_OnlyAcceptedTypesStaged ==
    /\ \A i \in 1..Len(files) : IsDocument(files[i])
    /\ \A r \in 1..Len(upload) : \A i \in 1..Len(upload[r].files) :
          IsDocument(upload[r].files[i])
    /\ lastDrop.kind = "drop" =>
          /\ \A i \in 1..Len(lastDrop.rejected) :
                lastDrop.rejected[i] \notin Range(files)
          /\ \A i \in 1..Len(lastDrop.accepted) : Staged(lastDrop.accepted[i])
          /\ Len(lastDrop.rejected) > 0 =>
                uploadStatus =
                    [type |-> "warning",
                     message |-> ToString(Len(lastDrop.rejected))
                                 \o " file(s) rejected (invalid type or size)."]

\* A drop of one accepted and one rejected file onto an empty list.
C8_Witness ==
    /\ lastDrop.kind = "drop"
    /\ lastDrop.before = <<>>
    /\ Len(lastDrop.rejected) = 1
    /\ Len(lastDrop.accepted) = 1
    /\ files = lastDrop.accepted
    /\ uploadStatus.type = "warning"
    /\ uploadStatus.message = "1 file(s) rejected (invalid type or size)."

\* C9: an upload of a non-empty staging list sends every staged file in one
\* request; on success the list is emptied and the status reports the
\* response's counts; on failure the list is unchanged and the status is an
\* error; handleUpload on an empty list sends nothing and sets
\* 'No valid files to upload.'.
C9_UploadOutcome ==
    /\ lastUpload.kind = "sent" =>
          /\ Len(lastUpload.staged) > 0
          /\ Len(lastUpload.requests) = 1
          /\ lastUpload.requests[1].files = lastUpload.staged
          /\ upload = lastUpload.requests
          /\ files = lastUpload.staged
          /\ isUploading
    /\ lastUpload.kind = "succeeded" =>
          /\ files = <<>>
          /\ ~isUploading
          /\ uploadStatus.type = "success"
          /\ uploadStatus.message =
                "Success: Ingested "
                \o ToString(lastUpload.response.total_documents_ingested)
                \o " file(s) as "
                \o ToString(lastUpload.response.total_chunks_created) \o " chunks."
    /\ lastUpload.kind = "failed" =>
          /\ files = lastUpload.before
          /\ files = lastUpload.sent
          /\ ~isUploading
          /\ uploadStatus.type = "error"
          /\ uploadStatus.message # ""
    /\ LET r == handleUpload(<<>>) IN
          /\ r.requests = <<>>
          /\ r.isUploading = isUploading
          /\ r.uploadStatus = [type |-> "error", message |-> "No valid files to upload."]

\* Two staged files sent and ingested.
C9_Witness ==
    /\ lastUpload.kind = "succeeded"
    /\ Len(lastUpload.sent) = 2
    /\ files = <<>>
    /\ upload = <<>>
    /\ uploadStatus.message = "Success: Ingested 2 file(s) as 8 chunks."

----------------------------------------------------------------------------
(* Claims about the result cache, checked under SpecCache *)

IsMiss(call) == call.response.cache_status = JStr("miss")
IsHit(call) == call.response.cache_status = JStr("hit")

\* The latest earlier submission of the same key that wrote the cache.
LastPut(j) ==
    LET prior == {i \in 1..(j - 1) : calls[i].key = calls[j].key /\ IsMiss(calls[i])}
    IN  IF prior = {} THEN 0 ELSE CHOOSE i \in prior : \A k \in prior : k <= i

\* C10: a submission that finds its key written less than ttl ago is answered
\* with the written value, cache_status forced to hit and every other field
\* unchanged; one that finds no entry, or an entry whose ttl has elapsed, is a
\* miss; so of two submissions within the ttl, the first on no live entry,
\* the first is a miss and the second a hit.
C10_CacheRoundTrip ==
    \A j \in 1..Len(calls) :
        LET i == LastPut(j) IN
        IF i # 0 /\ calls[j].time - calls[i].time < CacheTtl
        THEN /\ IsHit(calls[j])
             /\ calls[j].response = [calls[i].response EXCEPT !.cache_status = JStr("hit")]
        ELSE IsMiss(calls[j])

\* A miss, a hit within the ttl, and a miss again once the ttl has elapsed.
C10_Witness ==
    /\ Len(calls) = 3
    /\ calls[1].key = calls[2].key /\ calls[2].key = calls[3].key
    /\ IsMiss(calls[1]) /\ IsHit(calls[2]) /\ IsMiss(calls[3])
    /\ calls[2].time - calls[1].time < CacheTtl
    /\ calls[3].time - calls[1].time = CacheTtl

----------------------------------------------------------------------------
(* Further claims about the App and QueryPanel, checked under Spec *)

\* C11: in every state exactly one of the four result areas is displayed: the
\* error alert (error set, not loading), the loading indicator (loading), the
\* results view (not loading, no error, results present) or the empty state
\* (not loading, no error, no results); results are never displayed while
\* loading or while an error is set.
C11_ExactlyOneArea ==
    /\ Cardinality(AppAreas) = 1
    /\ "error" \in AppAreas <=> (~IsNull(error) /\ ~isLoading)
    /\ "loading" \in AppAreas <=> isLoading
    /\ "results" \in AppAreas <=> (~isLoading /\ IsNull(error) /\ ~IsNull(queryResults))
    /\ "empty" \in AppAreas <=> (~isLoading /\ IsNull(error) /\ IsNull(queryResults))
    /\ "results" \in AppAreas => (~isLoading /\ IsNull(error))

\* After a rejected query only the error alert is displayed.
C11_Witness ==
    /\ settled.kind = "rejected"
    /\ AppAreas = {"error"}
    /\ error = JStr("Network Error")

\* C12: QueryPanel never invokes onSubmit with an empty or whitespace-only
\* query and never while isLoading is true, from the button or from
\* Ctrl/Cmd+Enter: no request carries a blank query, handleQuerySubmit's own
\* "Please enter a query" branch is never taken, and at most one query request
\* is in flight at any time.
C12_GuardedSubmit ==
    /\ Len(inflight) <= 1
    /\ \A i \in 1..Len(inflight) : Trim(inflight[i].query) # ""
    /\ error # JStr("Please enter a query")
    /\ settled.kind # "none" => Trim(settled.query) # ""

\* A query with surrounding blanks has been submitted and is the one request
\* in flight.
C12_Witness ==
    /\ isLoading
    /\ Len(inflight) = 1
    /\ inflight[1].query = " q1"

\* C13: no state is carried from one query to the next. While a request is
\* pending the previous results and the previous error are already cleared; a
\* failed query leaves no results held; and whenever the results view is
\* displayed no request is pending and the envelope shown is the response that
\* settled the most recently submitted query.
C13_NothingCarriedOver ==
    /\ Len(inflight) > 0 => (IsNull(queryResults) /\ IsNull(error))
    /\ settled.kind = "rejected" => IsNull(queryResults)
    /\ ShowsResults =>
        /\ inflight = <<>>
        /\ settled.kind = "resolved"
        /\ settled.id = latest
        /\ queryResults = settled.response

\* The results view shows the answer to a second (or fourth, ...) submission.
C13_Witness ==
    /\ ShowsResults
    /\ settled.kind = "resolved"
    /\ settled.id = 0
    /\ latest = 0

----------------------------------------------------------------------------
(* Further claims about DocumentUploader, checked under SpecUpload *)

NoDuplicatesStaged ==
    \A i, j \in 1..Len(files) : SameFile(files[i], files[j]) => i = j

\* C15: exact duplicates are prevented in the staging list: it never holds two
\* files with the same name and the same size, and a drop of files that are
\* all staged already leaves the list unchanged.
C15_NoExactDuplicates ==
    /\ NoDuplicatesStaged
    /\ (/\ lastDrop.kind = "drop"
        /\ \A k \in 1..Len(lastDrop.accepted) :
               \E i \in 1..Len(lastDrop.before) :
                   SameFile(lastDrop.before[i], lastDrop.accepted[k]))
       => files = lastDrop.before

\* C15, second half alone: a drop of files that are all staged already leaves
\* the staging list unchanged.
C15_StagedFileDroppedAgain ==
    (/\ lastDrop.kind = "drop"
     /\ \A k \in 1..Len(lastDrop.accepted) :
            \E i \in 1..Len(lastDrop.before) :
                SameFile(lastDrop.before[i], lastDrop.accepted[k]))
    => files = lastDrop.before

----------------------------------------------------------------------------
(* Busy flags, checked under SpecLive *)

\* C16: a busy flag never stays set after its request has settled. isLoading
\* is true exactly while a query request is pending and isUploading exactly
\* while an upload request is pending, on success and on failure alike; and as
\* the transport settles every request, a set flag is eventually cleared, so
\* the query panel and the uploader always become usable again.
C16_BusyFlagsClear ==
    /\ [](isLoading <=> Len(inflight) > 0)
    /\ [](isUploading <=> Len(upload) > 0)
    /\ isLoading ~> ~isLoading
    /\ isUploading ~> ~isUploading

\* A second query has failed, nothing is pending and the flag is cleared.
C16_Witness ==
    /\ settled.kind = "rejected"
    /\ settled.id = 0
    /\ inflight = <<>>
    /\ ~isLoading

====
